---- MODULE Spec2Model ----
(***************************************************************************)
(* A model of GTSDB_RPN_Train.ipynb: the anchor-box utilities              *)
(* (get_anchors, intersect/union/iou, coords2param, anchors_vs_gt,         *)
(* filter_boxes), the data generator datagen, the checkpoint search and    *)
(* load, and the fit_generator call with its callbacks.                    *)
(*                                                                         *)
(* Numbers.  A box is <<y1, x1, y2, x2>>.  All box coordinates are kept    *)
(* in half-pixels (twice the value numpy holds), so that the ".5" of       *)
(* get_anchors is the integer 1 and every coordinate is an integer.  IoU   *)
(* and the box parameters are ratios and do not change under this          *)
(* scaling.  A quotient n/d is kept exactly as the pair <<n, d>>, d > 0,   *)
(* and compared by cross multiplication.  np.log(q) is kept as the record  *)
(* [log |-> q].                                                            *)
(*                                                                         *)
(* Arrays.  An array of shape (rows, cols, k, ...) is a function over      *)
(* 0..rows-1, 0..cols-1 and 1..k; a last axis of length 4 is a tuple.     *)
(* The arrays anchors_vs_gt, coords2param and filter_boxes work on are     *)
(* functions over an index set (the triples <<r, c, a>>, or 1..n).         *)
(***************************************************************************)
EXTENDS Integers, Sequences, FiniteSets, TLC

VARIABLES
    ga_args, ga_ret,       \* get_anchors: its arguments, its return value
    c2p_args, c2p_ret,     \* coords2param
    avg_args, avg_ret,     \* anchors_vs_gt
    fb_args, fb_ret,       \* filter_boxes
    gen,                   \* the two datagen generators: next image, status
    batch,                 \* what the last next(generator) produced
    phase, epoch, step,    \* fit_generator: where the training loop stands
    best_inf, wait,        \* ModelCheckpoint.best is still inf; EarlyStopping.wait
    files, latest,         \* models/gtsdb_rpn/: the epoch numbers N of the
                           \* gtsdb_rpn-N.hdf5 present, the one written last
    temp, model, run       \* the notebook's temp and model, the kernel run

gaVars  == <<ga_args, ga_ret>>
c2pVars == <<c2p_args, c2p_ret>>
avgVars == <<avg_args, avg_ret>>
fbVars  == <<fb_args, fb_ret>>
genVars == <<gen, batch>>
fitVars == <<phase, epoch, step, best_inf, wait>>
dirVars == <<files, latest>>
nbVars  == <<temp, model, run>>
vars == <<ga_args, ga_ret, c2p_args, c2p_ret, avg_args, avg_ret, fb_args, fb_ret,
          gen, batch, phase, epoch, step, best_inf, wait, files, latest,
          temp, model, run>>

\* values are records, so that "no value yet" and a raised error compare with them
None == [none |-> TRUE]
Val(v) == [val |-> v]

(***************************************************************************)
(* Exact quotients.                                                        *)
(***************************************************************************)
RatLe(p, q) == p[1] * q[2] <= q[1] * p[2]
RatLt(p, q) == p[1] * q[2] <  q[1] * p[2]
RatEq(p, q) == p[1] * q[2] =  q[1] * p[2]
Zero == <<0, 1>>

\* max over a non-empty tuple of quotients, left to right
RECURSIVE np_max(_)
np_max(s) ==
    IF Len(s) = 1 THEN s[1]
    ELSE LET m == np_max(SubSeq(s, 1, Len(s) - 1))
         IN  IF RatLt(m, s[Len(s)]) THEN s[Len(s)] ELSE m

\* argmax over a non-empty tuple: the first index holding the maximum
np_argmax(s) ==
    LET m == np_max(s)
    IN  CHOOSE i \in 1..Len(s) :
            /\ RatEq(s[i], m)
            /\ \A j \in 1..(i - 1) : ~RatEq(s[j], m)

\* max over all entries f[i], i \in S, S non-empty (reshape((-1, n)).max(axis=0))
RECURSIVE MaxOver(_, _)
MaxOver(S, f) ==
    LET i == CHOOSE x \in S : TRUE
    IN  IF S = {i} THEN f[i]
        ELSE LET m == MaxOver(S \ {i}, f)
             IN  IF RatLt(m, f[i]) THEN f[i] ELSE m

(***************************************************************************)
(* get_anchors                                                             *)
(***************************************************************************)
\* np.indices((rows, cols)): shape (2, rows, cols)
np_indices(rows, cols) ==
    [d \in 0..1 |-> [r \in 0..(rows - 1) |-> [c \in 0..(cols - 1) |->
        IF d = 0 THEN r ELSE c]]]

\* a.transpose((1,2,0)) of an array of shape (2, rows, cols)
transpose120(a) ==
    [r \in DOMAIN a[0] |-> [c \in DOMAIN a[0][r] |-> [d \in DOMAIN a |-> a[d][r][c]]]]

\* np.tile(a, 2) of an array of shape (rows, cols, 2): the last axis twice
np_tile2(a) ==
    [r \in DOMAIN a |-> [c \in DOMAIN a[r] |-> [j \in 0..3 |-> a[r][c][j % 2]]]]

\* [-.5, -.5, .5, .5] in half-pixels per pixel of size
HalfSigns == <<-1, -1, 1, 1>>

\* centres: np.tile(np.indices(..).transpose(..) * stride + .5, 2), in half-pixels
anchor_centres(rows, cols, stride) ==
    LET ix == transpose120(np_indices(rows, cols))
        sc == [r \in DOMAIN ix |-> [c \in DOMAIN ix[r] |-> [d \in DOMAIN ix[r][c] |->
                  2 * (ix[r][c][d] * stride) + 1]]]
    IN  np_tile2(sc)

\* np.repeat(np.expand_dims(np.array(sizes), 1), 4, axis=1) * [-.5,-.5,.5,.5]
anchor_offsets(sizes) ==
    [a \in 1..Len(sizes) |-> [j \in 0..3 |-> sizes[a] * HalfSigns[j + 1]]]

\* get_anchors with the y and x centres swapped (a wrong transpose): C8 must reject it
get_anchors_bad(rows, cols, sizes, stride) ==
    LET ctr == anchor_centres(rows, cols, stride)
        off == anchor_offsets(sizes)
    IN  [r \in 0..(rows - 1) |-> [c \in 0..(cols - 1) |-> [a \in 1..Len(sizes) |->
            <<ctr[r][c][1] + off[a][0], ctr[r][c][0] + off[a][1],
              ctr[r][c][3] + off[a][2], ctr[r][c][2] + off[a][3]>>]]]

get_anchors(rows, cols, sizes, stride) ==
    LET ctr == anchor_centres(rows, cols, stride)
        off == anchor_offsets(sizes)
    IN  [r \in 0..(rows - 1) |-> [c \in 0..(cols - 1) |-> [a \in 1..Len(sizes) |->
            <<ctr[r][c][0] + off[a][0], ctr[r][c][1] + off[a][1],
              ctr[r][c][2] + off[a][2], ctr[r][c][3] + off[a][3]>>]]]

\* the index set of an anchors array and the array as a function over it
AncIndex(A) ==
    {<<r, c, a>> \in (DOMAIN A) \X (DOMAIN A[0]) \X (DOMAIN A[0][0]) : TRUE}
Flat(A) == [i \in AncIndex(A) |-> A[i[1]][i[2]][i[3]]]

(***************************************************************************)
(* intersect / union / iou                                                 *)
(***************************************************************************)
Min(x, y) == IF x <= y THEN x ELSE y
Max(x, y) == IF x >= y THEN x ELSE y

\* b1, b2 boxes; the area of the intersection (in squared half-pixels)
intersect(b1, b2) ==
    LET m == [j \in 1..4 |-> Min(b1[j], b2[j])]
        M == [j \in 1..4 |-> Max(b1[j], b2[j])]
        h == Max(m[3] - M[1], 0)
        w == Max(m[4] - M[2], 0)
    IN  w * h

union(b1, b2, iarea) ==
    LET a1 == (b1[3] - b1[1]) * (b1[4] - b1[2])
        a2 == (b2[3] - b2[1]) * (b2[4] - b2[2])
    IN  a1 + a2 - iarea

\* iarea/uarea as an exact quotient (uarea > 0 when a box has positive area)
iou(b1, b2) ==
    LET iarea == intersect(b1, b2)
        uarea == union(b1, b2, iarea)
    IN  <<iarea, uarea>>

(***************************************************************************)
(* coords2param                                                            *)
(***************************************************************************)
\* one entry of the arrays: the parameters of box gtb against anchor anc
box_param(anc, gtb) ==
    LET wa == anc[4] - anc[2]
        ha == anc[3] - anc[1]
        tx == <<gtb[2] - anc[2], wa>>
        ty == <<gtb[2] - anc[2], ha>>
        tw == [log |-> <<gtb[4] - gtb[2], wa>>]
        th == [log |-> <<gtb[3] - gtb[1], ha>>]
    IN  <<tx, ty, tw, th>>

\* ancs, gtbs: arrays of boxes of the same shape (functions over one index set)
coords2param(ancs, gtbs) == [i \in DOMAIN ancs |-> box_param(ancs[i], gtbs[i])]

(***************************************************************************)
(* anchors_vs_gt                                                           *)
(***************************************************************************)
ValueError == [raise |-> "ValueError"]
Lo == <<3, 10>>      \* lo=.3
Hi == <<7, 10>>      \* hi=.7

\* np.stack(list, axis=-1): raises ValueError on an empty list
np_stack(list, I) ==
    IF Len(list) = 0 THEN ValueError
    ELSE Val([i \in I |-> [g \in 1..Len(list) |-> list[g][i]]])

\* ious.reshape((-1, gtb_num)).max(axis=0)
best_iou(ious, n) == [g \in 1..n |-> MaxOver(DOMAIN ious, [i \in DOMAIN ious |-> ious[i][g]])]

\* box_pos with .all(axis=-1) in place of .any(axis=-1): C6 must reject it
box_pos_all(ious, best, hi) ==
    [i \in DOMAIN ious |->
        \/ RatLe(hi, np_max(ious[i]))
        \/ \A g \in 1..Len(best) : RatEq(ious[i][g], best[g]) /\ RatLt(Zero, best[g])]

\* np.logical_or(ious.max(axis=-1) >= hi,
\*               np.logical_and(ious == best, best > 0).any(axis=-1))
box_pos_of(ious, best, hi) ==
    [i \in DOMAIN ious |->
        \/ RatLe(hi, np_max(ious[i]))
        \/ \E g \in 1..Len(best) : RatEq(ious[i][g], best[g]) /\ RatLt(Zero, best[g])]

\* ious.max(axis=-1) <= lo
box_neg_of(ious, lo) == [i \in DOMAIN ious |-> RatLe(np_max(ious[i]), lo)]

\* ancs: the anchors as a function over their index set; gtbs: a tuple of boxes
anchors_vs_gt(ancs, gtbs, lo, hi) ==
    LET stacked == np_stack([g \in 1..Len(gtbs) |-> [i \in DOMAIN ancs |-> iou(ancs[i], gtbs[g])]],
                         DOMAIN ancs)
    IN  IF stacked = ValueError THEN ValueError
        ELSE LET ious    == stacked.val
                 best    == best_iou(ious, Len(gtbs))
                 best_gt == [i \in DOMAIN ancs |-> gtbs[np_argmax(ious[i])]]
             IN  [box_pos |-> box_pos_of(ious, best, hi),
                  box_neg |-> box_neg_of(ious, lo),
                  regr    |-> coords2param(ancs, best_gt)]

(***************************************************************************)
(* filter_boxes                                                            *)
(***************************************************************************)
Where(mask) == {i \in DOMAIN mask : mask[i]}
Count(mask) == Cardinality(Where(mask))

\* np.random.choice(S, k, replace=False): every k-subset may be drawn
np_random_choice(S, k) == {D \in SUBSET S : Cardinality(D) = k}

Clear(mask, D) == [i \in DOMAIN mask |-> mask[i] /\ i \notin D]

\* filter_boxes without its second if (the negatives are never trimmed): C4 must reject it
filter_boxes_keep_neg(pos, neg, num) ==
    LET p_num == Count(pos)
        big   == 2 * p_num > num
        drop  == IF big THEN p_num - (num \div 2) ELSE 0
    IN  {<<Clear(pos, D), neg>> : D \in np_random_choice(Where(pos), drop)}

\* the set of results the random draws allow, each <<pos, neg>>
filter_boxes(pos, neg, num) ==
    LET p_num == Count(pos)
        n_num == Count(neg)
        big   == 2 * p_num > num                           \* p_num > num/2
        drop  == IF big THEN p_num - (num \div 2) ELSE 0
        p_new == IF big THEN num \div 2 ELSE p_num
        cut   == IF n_num + p_new > num THEN n_num - num + p_new ELSE 0
    IN  {<<Clear(pos, D), Clear(neg, E)>> :
            D \in np_random_choice(Where(pos), drop),
            E \in np_random_choice(Where(neg), cut)}

(***************************************************************************)
(* Bounds of the inputs, and the input sets.                               *)
(***************************************************************************)
GaMaxRows   == 2
GaMaxCols   == 3
GaMaxK      == 2      \* len(sizes)
GaMaxSize   == 3
GaMaxStride == 2
C2pMaxCoord == 2
C2pLen      == 2      \* entries of the arrays coords2param is given
AncCols     == 2      \* columns of the anchor grid anchors_vs_gt and datagen are given
GtMaxCoord  == 2      \* ground-truth coordinates, in pixels
MaxGt       == 2      \* ground-truth boxes of one image
FbLen       == 4      \* entries of the masks filter_boxes is given
FbMaxNum    == 5

\* the anchor grid: one row of AncCols positions, anchors of 1 and 2 pixels
AncGrid == [rows |-> 1, cols |-> AncCols, sizes |-> <<1, 2>>, stride |-> 1]

\* the boxes of positive area with corners in 0..maxc, scaled by unit
Boxes(maxc, unit) ==
    {<<unit * y1, unit * x1, unit * y2, unit * x2>> :
        <<y1, x1, y2, x2>> \in {b \in (0..maxc) \X (0..maxc) \X (0..maxc) \X (0..maxc) :
                                  b[1] < b[3] /\ b[2] < b[4]}}

\* tuples over S of length lo..hi
TuplesOf(S, lo, hi) == UNION {[1..n -> S] : n \in lo..hi}

\* gt.txt holds whole pixels: even numbers of half-pixels
GtBoxes == Boxes(GtMaxCoord, 2)
Ancs    == Flat(get_anchors(AncGrid.rows, AncGrid.cols, AncGrid.sizes, AncGrid.stride))
Half    == <<1, 2>>
Thresholds == {<<Lo, Hi>>, <<Half, Half>>}

IdleGA  == ga_args = None /\ ga_ret = None
IdleC2P == c2p_args = None /\ c2p_ret = None
IdleAVG == avg_args = None /\ avg_ret = None
IdleFB  == fb_args = None /\ fb_ret = None
IdleGen == gen = None /\ batch = None
IdleFit == phase = "idle" /\ epoch = 0 /\ step = 0 /\ best_inf = TRUE /\ wait = 0
IdleDir == files = {} /\ latest = {}
IdleNb  == temp = {} /\ model = None /\ run = 0

(***************************************************************************)
(* get_anchors applied to every input within the bounds.                   *)
(***************************************************************************)
InitGA ==
    /\ ga_args \in [rows : 1..GaMaxRows, cols : 1..GaMaxCols,
                    sizes : TuplesOf(1..GaMaxSize, 1, GaMaxK), stride : 1..GaMaxStride]
    /\ ga_ret = None
    /\ IdleC2P /\ IdleAVG /\ IdleFB /\ IdleGen /\ IdleFit /\ IdleDir /\ IdleNb

CallGetAnchors ==
    /\ ga_args # None /\ ga_ret = None
    /\ ga_ret' = Val(get_anchors(ga_args.rows, ga_args.cols, ga_args.sizes, ga_args.stride))
    /\ UNCHANGED <<ga_args, c2pVars, avgVars, fbVars, genVars, fitVars, dirVars, nbVars>>

SpecGA == InitGA /\ [][CallGetAnchors]_vars

(***************************************************************************)
(* coords2param applied to every pair of arrays within the bounds.         *)
(***************************************************************************)
InitC2P ==
    /\ c2p_args \in [ancs : [1..C2pLen -> Boxes(C2pMaxCoord, 1)],
                     gtbs : [1..C2pLen -> Boxes(C2pMaxCoord, 1)]]
    /\ c2p_ret = None
    /\ IdleGA /\ IdleAVG /\ IdleFB /\ IdleGen /\ IdleFit /\ IdleDir /\ IdleNb

CallCoords2Param ==
    /\ c2p_args # None /\ c2p_ret = None
    /\ c2p_ret' = Val(coords2param(c2p_args.ancs, c2p_args.gtbs))
    /\ UNCHANGED <<c2p_args, gaVars, avgVars, fbVars, genVars, fitVars, dirVars, nbVars>>

SpecC2P == InitC2P /\ [][CallCoords2Param]_vars

(***************************************************************************)
(* anchors_vs_gt applied to the anchor grid and every tuple of             *)
(* ground-truth boxes within the bounds (the empty tuple included).        *)
(***************************************************************************)
InitAVG ==
    /\ avg_args \in [ancs : {Ancs}, gtbs : TuplesOf(GtBoxes, 0, MaxGt), th : Thresholds]
    /\ avg_ret = None
    /\ IdleGA /\ IdleC2P /\ IdleFB /\ IdleGen /\ IdleFit /\ IdleDir /\ IdleNb

CallAnchorsVsGt ==
    /\ avg_args # None /\ avg_ret = None
    /\ avg_ret' = anchors_vs_gt(avg_args.ancs, avg_args.gtbs, avg_args.th[1], avg_args.th[2])
    /\ UNCHANGED <<avg_args, gaVars, c2pVars, fbVars, genVars, fitVars, dirVars, nbVars>>

SpecAVG == InitAVG /\ [][CallAnchorsVsGt]_vars

(***************************************************************************)
(* filter_boxes applied to every pair of masks and every num within the    *)
(* bounds, with every outcome of its random draws.                         *)
(***************************************************************************)
InitFB ==
    /\ fb_args \in [pos : [1..FbLen -> BOOLEAN], neg : [1..FbLen -> BOOLEAN],
                    num : 1..FbMaxNum]
    /\ fb_ret = None
    /\ IdleGA /\ IdleC2P /\ IdleAVG /\ IdleGen /\ IdleFit /\ IdleDir /\ IdleNb

CallFilterBoxes ==
    /\ fb_args # None /\ fb_ret = None
    /\ \E r \in filter_boxes(fb_args.pos, fb_args.neg, fb_args.num) :
           fb_ret' = Val([pos |-> r[1], neg |-> r[2]])
    /\ UNCHANGED <<fb_args, gaVars, c2pVars, avgVars, genVars, fitVars, dirVars, nbVars>>

SpecFB == InitFB /\ [][CallFilterBoxes]_vars

(***************************************************************************)
(* C8: get_anchors returns an array of shape (rows, cols, len(sizes), 4)   *)
(* whose entry (r, c, a) is the square box of side sizes[a] centred at     *)
(* (r*stride + 0.5, c*stride + 0.5).  In half-pixels the box is            *)
(* <<2*r*stride + 1 - sizes[a], 2*c*stride + 1 - sizes[a],                 *)
(*   2*r*stride + 1 + sizes[a], 2*c*stride + 1 + sizes[a]>>.               *)
(***************************************************************************)
C8_GetAnchorsSquares ==
    ga_ret # None =>
        LET rows == ga_args.rows  cols == ga_args.cols
            sizes == ga_args.sizes  stride == ga_args.stride
            ret == ga_ret.val
        IN  /\ DOMAIN ret = 0..(rows - 1)
            /\ \A r \in 0..(rows - 1) :
                 /\ DOMAIN ret[r] = 0..(cols - 1)
                 /\ \A c \in 0..(cols - 1) :
                      /\ DOMAIN ret[r][c] = 1..Len(sizes)
                      /\ \A a \in 1..Len(sizes) :
                           ret[r][c][a] =
                               <<2 * r * stride + 1 - sizes[a], 2 * c * stride + 1 - sizes[a],
                                 2 * r * stride + 1 + sizes[a], 2 * c * stride + 1 + sizes[a]>>

\* get_anchors has returned a grid of several rows, columns and sizes
C8_Witness ==
    /\ ga_ret # None
    /\ ga_args.rows >= 2 /\ ga_args.cols >= 3 /\ ga_args.stride >= 2
    /\ Len(ga_args.sizes) = 2 /\ ga_args.sizes[1] # ga_args.sizes[2]
    /\ ga_ret.val[1][2][2] # ga_ret.val[1][2][1]

(***************************************************************************)
(* C6: for a non-empty set of ground-truth boxes, anchors_vs_gt flags an   *)
(* anchor positive exactly when its IoU with some ground-truth box is      *)
(* >= hi, or it attains the highest IoU over all anchors with some         *)
(* ground-truth box and that IoU is > 0; it flags an anchor negative       *)
(* exactly when its IoU with every ground-truth box is <= lo; and every    *)
(* ground-truth box that overlaps an anchor has a positive anchor.         *)
(***************************************************************************)
C6_PosNegFlags ==
    (avg_ret # None /\ Len(avg_args.gtbs) > 0) =>
        LET ancs == avg_args.ancs
            gtbs == avg_args.gtbs
            lo   == avg_args.th[1]
            hi   == avg_args.th[2]
            G    == 1..Len(gtbs)
            I    == DOMAIN ancs
            IoU           == [i \in I |-> [g \in G |-> iou(ancs[i], gtbs[g])]]
            Highest(i, g) == \A j \in I : RatLe(IoU[j][g], IoU[i][g])
        IN  /\ avg_ret # ValueError
            /\ \A i \in I :
                 /\ avg_ret.box_pos[i] <=>
                        \/ \E g \in G : RatLe(hi, IoU[i][g])
                        \/ \E g \in G : Highest(i, g) /\ RatLt(Zero, IoU[i][g])
                 /\ avg_ret.box_neg[i] <=> \A g \in G : RatLe(IoU[i][g], lo)
            /\ \A g \in G :
                 (\E i \in I : intersect(ancs[i], gtbs[g]) > 0) =>
                     \E i \in I : avg_ret.box_pos[i] /\ Highest(i, g)

\* anchors_vs_gt has returned flags where one anchor is positive only by
\* holding the highest IoU (below hi), one reaches hi, one is negative and
\* one is neither
C6_Witness ==
    /\ avg_ret # None /\ avg_ret # ValueError
    /\ Len(avg_args.gtbs) = 2
    /\ LET ancs == avg_args.ancs
           gtbs == avg_args.gtbs
           I    == DOMAIN ancs
           Top(i) == np_max([g \in 1..2 |-> iou(ancs[i], gtbs[g])])
       IN  /\ \E i \in I : avg_ret.box_pos[i] /\ RatLt(Top(i), avg_args.th[2])
           /\ \E i \in I : avg_ret.box_pos[i] /\ RatLe(avg_args.th[2], Top(i))
           /\ \E i \in I : avg_ret.box_neg[i] /\ ~avg_ret.box_pos[i]
           /\ \E i \in I : ~avg_ret.box_neg[i] /\ ~avg_ret.box_pos[i]

(***************************************************************************)
(* C7: coords2param gives, for every anchor/ground-truth pair, tx = the x  *)
(* offset of the ground-truth box from the anchor over the anchor width    *)
(* and ty = the y offset over the anchor height (the offset of the y1      *)
(* corners as tx takes the x1 corners, or of the centres as in the paper); *)
(* so two ground-truth boxes that differ only in vertical position get     *)
(* different ty for the same anchor.                                       *)
(***************************************************************************)
C7_TyFromY ==
    c2p_ret # None =>
        LET A == c2p_args.ancs
            G == c2p_args.gtbs
            t == c2p_ret.val
            wa(i) == A[i][4] - A[i][2]
            ha(i) == A[i][3] - A[i][1]
            OnlyShiftedInY(g, h) ==
                /\ g[2] = h[2] /\ g[4] = h[4]
                /\ g[3] - g[1] = h[3] - h[1]
                /\ g[1] # h[1]
        IN  /\ \A i \in DOMAIN A : RatEq(t[i][1], <<G[i][2] - A[i][2], wa(i)>>)
            /\ \A i \in DOMAIN A :
                 \/ RatEq(t[i][2], <<G[i][1] - A[i][1], ha(i)>>)
                 \/ RatEq(t[i][2], <<(G[i][1] + G[i][3]) - (A[i][1] + A[i][3]), 2 * ha(i)>>)
            /\ \A i, j \in DOMAIN A :
                 (A[i] = A[j] /\ OnlyShiftedInY(G[i], G[j])) => ~RatEq(t[i][2], t[j][2])

(***************************************************************************)
(* C4: filter_boxes only uses num boxes: for num >= 2 the returned pos and *)
(* neg hold at most num True entries together, and pos at most num // 2.   *)
(***************************************************************************)
C4_AtMostNum ==
    (fb_ret # None /\ fb_args.num >= 2) =>
        /\ Count(fb_ret.val.pos) + Count(fb_ret.val.neg) <= fb_args.num
        /\ Count(fb_ret.val.pos) <= fb_args.num \div 2

\* filter_boxes has returned after dropping positives and negatives
C4_Witness ==
    /\ fb_ret # None /\ fb_args.num >= 2
    /\ Count(fb_ret.val.pos) < Count(fb_args.pos)
    /\ Count(fb_ret.val.neg) < Count(fb_args.neg)
    /\ Count(fb_ret.val.pos) + Count(fb_ret.val.neg) = fb_args.num

(***************************************************************************)
(* C5: after filter_boxes the positives do not outnumber the negatives     *)
(* (pos:neg at most 1:1) unless the positives are fewer than num/2, for    *)
(* every input.  "Fewer than num/2" is read of the returned positives,     *)
(* which are never more than the given ones.                               *)
(***************************************************************************)
C5_PosAtMostNeg ==
    fb_ret # None =>
        \/ Count(fb_ret.val.pos) <= Count(fb_ret.val.neg)
        \/ 2 * Count(fb_ret.val.pos) < fb_args.num

(***************************************************************************)
(* datagen: a Python generator over the images start..stop-1.              *)
(* A generator is [i, stop, status]: i the image its next step reads,      *)
(* status "suspended" while it can be resumed, "finished" once its loop    *)
(* has ended, "raised" once an exception has left it.                      *)
(***************************************************************************)
TrainStart      == 0       \* datagen(0, 600, shuffle=True)
TrainStop       == 600
ValStart        == 600     \* datagen(600, 900)
ValStop         == 900
StepsPerEpoch   == 600
ValidationSteps == 300
Epochs          == 100
Patience        == 5
FilterNum       == 256     \* filter_boxes(pos, neg, num=256)
GenMaxGt        == 1       \* rows of gt.txt for one image, in the training runs
CkMaxEpoch      == 7       \* epochs of one run the checkpoint model follows
MaxRuns         == 3       \* kernel runs the checkpoint model follows

StopIteration == [raise |-> "StopIteration"]

datagen(start, stop) == [i |-> start, stop |-> stop, status |-> "suspended"]

\* next(g) when csv[csv[:,0] == i] holds the rows gtbs: the set of
\* <<generator afterwards, value yielded or exception raised>>
datagen_next(g, ancs, gtbs) ==
    IF g.status # "suspended" THEN {<<g, StopIteration>>}
    ELSE IF g.i >= g.stop THEN {<<[g EXCEPT !.status = "finished"], StopIteration>>}
    ELSE LET r == anchors_vs_gt(ancs, gtbs, Lo, Hi)
         IN  IF r = ValueError THEN {<<[g EXCEPT !.status = "raised"], ValueError>>}
             ELSE {<<[g EXCEPT !.i = g.i + 1],
                     Val([x_img  |-> g.i,
                          y_cls  |-> <<f[1], f[2]>>,
                          y_regr |-> <<f[1], r.regr>>])>> :
                        f \in filter_boxes(r.box_pos, r.box_neg, FilterNum)}

(***************************************************************************)
(* The checkpoint search, the model build/load, and fit_generator with     *)
(* ModelCheckpoint(save_best_only) and EarlyStopping(patience=5).          *)
(* A file gtsdb_rpn-N.hdf5 is the number N.                                *)
(***************************************************************************)
SetMax(S) == CHOOSE m \in S : \A n \in S : n <= m

\* max(temp) of the load: the file named in load_model
load_choice(t) == SetMax(t)

\* temp = [int(m.group(1)) for m in matches of gtsdb_rpn-(\d+)\.hdf5]
SearchCheckpoints ==
    /\ phase = "start"
    /\ temp' = files
    /\ phase' = "searched"
    /\ UNCHANGED <<model, run, epoch, step, best_inf, wait, dirVars, genVars,
                   gaVars, c2pVars, avgVars, fbVars>>

\* if len(temp) == 0: build a new model, else load gtsdb_rpn-max(temp).hdf5
BuildOrLoad ==
    /\ phase = "searched"
    /\ model' = IF Cardinality(temp) = 0 THEN [kind |-> "new"]
                ELSE [kind |-> "loaded", file |-> load_choice(temp)]
    /\ phase' = "built"
    /\ UNCHANGED <<temp, run, epoch, step, best_inf, wait, dirVars, genVars,
                   gaVars, c2pVars, avgVars, fbVars>>

\* the callbacks' on_epoch_end; improved: val_loss is below the best so far
OnEpochEnd(improved) ==
    LET stop == ~improved /\ wait >= Patience
    IN  /\ files'    = IF improved THEN files \cup {epoch} ELSE files
        /\ latest'   = IF improved THEN {epoch} ELSE latest
        /\ best_inf' = FALSE
        /\ wait'     = IF improved THEN 0 ELSE wait + 1
        /\ epoch'    = epoch + 1
        /\ step'     = 0
        /\ phase'    = IF stop \/ epoch + 1 >= Epochs THEN "done" ELSE "train"

\* val_loss < inf in the first epoch of a run
Improvements == IF best_inf THEN {TRUE} ELSE BOOLEAN

(***************************************************************************)
(* One training run, batch by batch: fit_generator draws steps_per_epoch   *)
(* batches from the training generator, then validation_steps from the     *)
(* validation generator, then runs the callbacks.                          *)
(***************************************************************************)
InitTrain ==
    /\ gen = [train |-> datagen(TrainStart, TrainStop), val |-> datagen(ValStart, ValStop)]
    /\ batch = None
    /\ phase = "train" /\ epoch = 0 /\ step = 0 /\ best_inf = TRUE /\ wait = 0
    /\ files = {} /\ latest = {}
    /\ temp = {} /\ model = [kind |-> "new"] /\ run = 1
    /\ IdleGA /\ IdleC2P /\ IdleAVG /\ IdleFB

Draw(which, steps, after) ==
    \E gtbs \in TuplesOf(GtBoxes, 0, GenMaxGt) :
      \E r \in datagen_next(gen[which], Ancs, gtbs) :
        /\ gen' = [gen EXCEPT ![which] = r[1]]
        /\ batch' = r[2]
        /\ IF r[2] \in {StopIteration, ValueError}
           THEN phase' = "failed" /\ step' = step
           ELSE IF step + 1 = steps
                THEN phase' = after /\ step' = 0
                ELSE phase' = phase /\ step' = step + 1

TrainStep ==
    /\ phase = "train"
    /\ Draw("train", StepsPerEpoch, "validate")
    /\ UNCHANGED <<epoch, best_inf, wait, dirVars, nbVars, gaVars, c2pVars, avgVars, fbVars>>

ValidationStep ==
    /\ phase = "validate"
    /\ Draw("val", ValidationSteps, "epoch_end")
    /\ UNCHANGED <<epoch, best_inf, wait, dirVars, nbVars, gaVars, c2pVars, avgVars, fbVars>>

EpochEnd ==
    /\ phase = "epoch_end"
    /\ \E improved \in Improvements : OnEpochEnd(improved)
    /\ UNCHANGED <<genVars, nbVars, gaVars, c2pVars, avgVars, fbVars>>

NextTrain == TrainStep \/ ValidationStep \/ EpochEnd
SpecTrain == InitTrain /\ [][NextTrain]_vars

(***************************************************************************)
(* C1: the training loop never finds either generator exhausted: no        *)
(* training or validation step ends with StopIteration.                    *)
(***************************************************************************)
C1_NeverExhausted == ~(phase = "failed" /\ batch = StopIteration)

(***************************************************************************)
(* C3: no image index in the range makes the generator stop with an error  *)
(* (an image without ground-truth rows included): datagen yields a batch   *)
(* for image i and proceeds to i+1.                                        *)
(***************************************************************************)
C3_NoImageRaises == \A g \in DOMAIN gen : gen[g].status # "raised"

(***************************************************************************)
(* The checkpoint directory over several kernel runs of the notebook.      *)
(* Each run searches the directory, builds or loads the model, and calls   *)
(* fit_generator; every call makes new callbacks and counts its epochs     *)
(* from 0.  An epoch here is one whose training and validation steps all   *)
(* obtained their batches (a run fed as fit_generator expects, by          *)
(* generators that do not run out); a run is followed for CkMaxEpoch       *)
(* epochs, and the kernel may be restarted at any epoch boundary.          *)
(***************************************************************************)
InitCkpt ==
    /\ phase = "start" /\ run = 1
    /\ files = {} /\ latest = {}
    /\ temp = {} /\ model = None
    /\ epoch = 0 /\ step = 0 /\ best_inf = TRUE /\ wait = 0
    /\ IdleGen /\ IdleGA /\ IdleC2P /\ IdleAVG /\ IdleFB

\* model.fit_generator(...) is called: new callbacks, epoch 0
StartFit ==
    /\ phase = "built"
    /\ phase' = "train" /\ epoch' = 0 /\ step' = 0 /\ best_inf' = TRUE /\ wait' = 0
    /\ UNCHANGED <<dirVars, nbVars, genVars, gaVars, c2pVars, avgVars, fbVars>>

FitEpoch ==
    /\ phase = "train" /\ epoch < CkMaxEpoch
    /\ \E improved \in Improvements : OnEpochEnd(improved)
    /\ UNCHANGED <<genVars, nbVars, gaVars, c2pVars, avgVars, fbVars>>

\* the kernel is restarted and the notebook run from the top
RestartKernel ==
    /\ phase \in {"train", "done"} /\ run < MaxRuns
    /\ phase' = "start" /\ run' = run + 1
    /\ temp' = {} /\ model' = None
    /\ UNCHANGED <<epoch, step, best_inf, wait, dirVars, genVars,
                   gaVars, c2pVars, avgVars, fbVars>>

NextCkpt == SearchCheckpoints \/ BuildOrLoad \/ StartFit \/ FitEpoch \/ RestartKernel
SpecCkpt == InitCkpt /\ [][NextCkpt]_vars

====
